---- MODULE Spec2Model ----
(***************************************************************************)
(* A model of mitte's Agent (src/src/agent.rs): the handshake / listen     *)
(* protocol over UDP, the peer directory, the socket deadlines and the     *)
(* framing done by send_message.                                           *)
(*                                                                         *)
(* Two agents run the code of agent.rs.  A third party, the scripted peer, *)
(* owns two further addresses and may put any datagram of a fixed menu     *)
(* into an agent's socket queue.  An Option<T> is a sequence of length at  *)
(* most one: << >> is None and <<x>> is Some(x).                           *)
(***************************************************************************)
EXTENDS Integers, Sequences, FiniteSets, TLC

\* ------------------------------------------------------------- bounds
\* calls one agent may start
MaxCalls == 2
\* datagrams the scripted peer may inject
MaxAdv == 2
\* datagrams a socket queue holds; a datagram arriving at a full queue is dropped
MaxInbox == 2
\* slots of the identity frame (320 bytes in the code, one slot per encoded field here)
FrameLen == 5

\* ---------------------------------------------------- program constants
InviteLen == 8
ReplyLen == 4
HandshakeSecs == 1
MaxMsgLen == 512
KeyBits == 2048
HeaderLen == 4
MsgBufLen == 1024

\* ------------------------------------------------------------ universe
Agents == {1, 2}
\* the scripted peer's two addresses; an agent a is bound to address a
AdvAddrs == {3, 4}

None == << >>
Some(x) == <<x>>

\* AgentDescription { addr, key, name }
Desc(addr, key, name) == [addr |-> addr, key |-> key, name |-> name]

\* the public key generated for the party named n
PubKey(n) == n + 10

\* Agent::new: the profile carries the bind address, the fresh public key and the name
Profile(a) == Desc(Some(a), PubKey(a), a)

\* the scripted peer's description, reachable at either of its addresses
AdvDesc(addr) == Desc(Some(addr), PubKey(3), 3)

\* a description without an address, as AgentDescription::deserialize can return
NoAddrDesc == Desc(None, PubKey(3), 3)

\* impl PartialEq for AgentDescription: same key and same name, the address is ignored
IdEq(r, s) == r.key = s.key /\ r.name = s.name

\* Vec::contains under that equality
Contains(v, r) == \E i \in 1..Len(v) : IdEq(v[i], r)

\* peers.clone().into_iter().filter(|v| v != r).collect()
Filtered(v, r) == SelectSeq(v, LAMBDA x : ~IdEq(x, r))

\* the entry overwritten where it stands instead of filtered out and pushed
ReplacedInPlace(v, r) == [i \in 1..Len(v) |-> IF IdEq(v[i], r) THEN r ELSE v[i]]

\* the filter followed by push(r.clone())
Replaced(v, r) == Append(Filtered(v, r), r)

\* number of entries of v identity-equal to r
Count(v, r) == Cardinality({i \in 1..Len(v) : IdEq(v[i], r)})

Fill(n, b) == [i \in 1..n |-> b]

\* ------------------------------------------------------------- frames
Invite == Fill(InviteLen, 0)
Ack == Fill(InviteLen, 8)

\* serialize with the key and the name written in the wrong order
SerializeSwapped(r) ==
  LET enc == (IF r.addr = None THEN <<0>> ELSE <<1, r.addr[1]>>) \o <<r.name, r.key>>
  IN  enc \o Fill(FrameLen - Len(enc), 0)

\* AgentDescription::serialize: the bincode encoding in field order (the Option tag,
\* the address when there is one, the key, the name), zero-padded to the frame length
Serialize(r) ==
  LET enc == (IF r.addr = None THEN <<0>> ELSE <<1, r.addr[1]>>) \o <<r.key, r.name>>
  IN  enc \o Fill(FrameLen - Len(enc), 0)

\* whether bincode::deserialize accepts the buffer: the Option tag must be 0 or 1
Decodes(buf) == buf[1] \in {0, 1}

\* AgentDescription::deserialize of a buffer it accepts
Deserialize(buf) ==
  IF buf[1] = 0 THEN Desc(None, buf[2], buf[3])
  ELSE Desc(Some(buf[2]), buf[3], buf[4])

\* a receive that clears the part of the buffer the datagram does not reach
RecvIntoZeroed(buf, bytes) ==
  [i \in 1..Len(buf) |-> IF i <= Len(bytes) THEN bytes[i] ELSE 0]

\* UdpSocket::recv / recv_from into buf: the datagram's bytes overwrite the front of
\* the buffer, bytes beyond the buffer are discarded, the rest of the buffer is kept
RecvInto(buf, bytes) ==
  [i \in 1..Len(buf) |-> IF i <= Len(bytes) THEN bytes[i] ELSE buf[i]]

\* --------------------------------------------------------------- state
VARIABLES
  peers,   \* Agent.peers of each agent: a sequence of descriptions
  sock,    \* Agent.socket: read / write timeout and the connected address
  inbox,   \* the datagrams queued at each agent's socket
  pc,      \* where each agent's current call stands
  loc,     \* the locals of each agent's current (or last) call
  ret,     \* what each agent's last call returned
  calls,   \* calls each agent has started
  adv      \* datagrams the scripted peer has injected

vars == <<peers, sock, inbox, pc, loc, ret, calls, adv>>

\* a datagram: the sender's address, the bytes, the ciphertext block of a message
\* frame (None for every other frame), and the call that emitted it (<<agent, n>>,
\* <<0, 0>> for the scripted peer; not read by any agent)
Dgram(from, data, ct, src) == [from |-> from, data |-> data, ct |-> ct, src |-> src]

\* one send or send_to of a call: the destination, the bytes, whether it succeeded
Out(to, data, sent) == [to |-> to, data |-> data, sent |-> sent]

\* op, target, msg, name: the call and its arguments; old_rt, old_wt, sender: its locals;
\* before, prev: the directory it found and what the call before it returned;
\* out, rx: what it has sent and received; cut, got: the length of the slice
\* recv_message handed to decryption and the plaintext it returned
NoLoc ==
  [op |-> "none", target |-> NoAddrDesc, old_rt |-> None, old_wt |-> None,
   sender |-> None, before |-> << >>, out |-> << >>, rx |-> << >>,
   msg |-> [len |-> 0, id |-> 0], io |-> FALSE, enc |-> FALSE, prev |-> "none",
   name |-> 0, cut |-> None, got |-> None]

\* the state with the given directories and calls already made: freshly bound
\* sockets (blocking, unconnected), nothing queued, no call running
InitWith(dirs, made) ==
  /\ peers = dirs
  /\ calls = made
  /\ sock = [a \in Agents |-> [rt |-> None, wt |-> None, conn |-> None]]
  /\ inbox = [a \in Agents |-> << >>]
  /\ pc = [a \in Agents |-> "idle"]
  /\ loc = [a \in Agents |-> NoLoc]
  /\ ret = [a \in Agents |-> "none"]
  /\ adv = 0

\* Agent::new: no peers
Init == InitWith([a \in Agents |-> << >>], [a \in Agents |-> 0])

\* the locals of a call that starts: the deadlines and the directory it found
Entered(a, op, target) ==
  [NoLoc EXCEPT !.op = op, !.target = target, !.old_rt = sock[a].rt,
                !.old_wt = sock[a].wt, !.before = peers[a], !.prev = ret[a]]

\* the network hands datagram d to address to: it is queued when an agent's live
\* socket is bound there, has room, and is unconnected or connected to d's sender
Put(inb, to, d) ==
  IF /\ to \in Agents
     /\ pc[to] # "aborted"
     /\ Len(inb[to]) < MaxInbox
     /\ (sock[to].conn = None \/ sock[to].conn = Some(d.from))
  THEN [inb EXCEPT ![to] = Append(@, d)]
  ELSE inb

\* the call of agent a that is running
Src(a) == <<a, calls[a]>>

\* agent a's call ends by returning r
Return(a, r) ==
  /\ pc' = [pc EXCEPT ![a] = "idle"]
  /\ ret' = [ret EXCEPT ![a] = r]

\* agent a's call ends in a panic (an unwrap of an Err or of a None): the process
\* aborts, nothing is returned; why names the step that failed
Panic(a, why) ==
  /\ pc' = [pc EXCEPT ![a] = "aborted"]
  /\ ret' = [ret EXCEPT ![a] = why]

\* ----------------------------------------------------------- handshake
\* handshake, lines 149-171: save the deadlines, install one second, connect to the
\* target, send the invite
HsBegin(a, target) ==
  /\ pc[a] = "idle"
  /\ calls[a] < MaxCalls
  /\ calls' = [calls EXCEPT ![a] = @ + 1]
  /\ LET timed == [sock[a] EXCEPT !.rt = Some(HandshakeSecs), !.wt = Some(HandshakeSecs)]
         enter == Entered(a, "handshake", target)
     IN
     \/ \* target.addr.unwrap() of a description without address
        /\ target.addr = None
        /\ sock' = [sock EXCEPT ![a] = timed]
        /\ loc' = [loc EXCEPT ![a] = enter]
        /\ Panic(a, "panic: no address")
        /\ UNCHANGED <<peers, inbox, adv>>
     \/ \* connect fails
        /\ target.addr # None
        /\ sock' = [sock EXCEPT ![a] = timed]
        /\ loc' = [loc EXCEPT ![a] = enter]
        /\ Return(a, "HandshakeError: peer disconnected")
        /\ UNCHANGED <<peers, inbox, adv>>
     \/ \* connected, the invite cannot be sent
        /\ target.addr # None
        /\ sock' = [sock EXCEPT ![a] = [timed EXCEPT !.conn = target.addr]]
        /\ loc' = [loc EXCEPT ![a] =
                     [enter EXCEPT !.out = <<Out(target.addr[1], Invite, FALSE)>>]]
        /\ Panic(a, "panic: send")
        /\ UNCHANGED <<peers, inbox, adv>>
     \/ \* connected, the invite is sent
        /\ target.addr # None
        /\ sock' = [sock EXCEPT ![a] = [timed EXCEPT !.conn = target.addr]]
        /\ loc' = [loc EXCEPT ![a] =
                     [enter EXCEPT !.out = <<Out(target.addr[1], Invite, TRUE)>>]]
        /\ inbox' = Put(inbox, target.addr[1], Dgram(a, Invite, None, <<a, calls[a] + 1>>))
        /\ pc' = [pc EXCEPT ![a] = "hs_ack"]
        /\ ret' = [ret EXCEPT ![a] = "running"]
        /\ UNCHANGED <<peers, adv>>

\* the padding check that looks at the last byte only
PadOkLastOnly(buf) == buf[4] = 1

\* the reply's padding check, line 198
PadOk(buf) == buf[1] = buf[4] /\ buf[4] = 1

\* the accept check applied only to replies about a known peer
RejectedIfKnown(buf) == buf[2] = 0 /\ buf[3] = 0

\* the reply's accept check, line 203
Rejected(buf) == buf[2] = 0

\* the reconciliation without the check that a peer called known is in the directory
HsReconcileLoose(v, buf, target) ==
  IF buf[3] = 1 /\ ~Contains(v, target)
  THEN [ok |-> TRUE, peers |-> Append(v, target)]
  ELSE IF buf[3] = 0
  THEN [ok |-> TRUE, peers |-> Replaced(v, target)]
  ELSE [ok |-> FALSE, peers |-> v]

\* the reconciliation of the reply's isNew byte with the directory, lines 210-226
HsReconcile(v, buf, target) ==
  IF buf[3] = 1 /\ ~Contains(v, target)
  THEN [ok |-> TRUE, peers |-> Append(v, target)]
  ELSE IF buf[3] = 0 /\ Contains(v, target)
  THEN [ok |-> TRUE, peers |-> Replaced(v, target)]
  ELSE [ok |-> FALSE, peers |-> v]

\* handshake, lines 175-186: receive the ack, check it, send the profile
HsRecvAck(a) ==
  /\ pc[a] = "hs_ack"
  /\ inbox[a] # << >>
  /\ LET d == Head(inbox[a])
         buf == RecvInto(Fill(InviteLen, 0), d.data)
         desc == Serialize(Profile(a))
         to == loc[a].target.addr[1]
         got == [loc[a] EXCEPT !.rx = Append(@, d)]
     IN
     \/ /\ buf # Ack
        /\ inbox' = [inbox EXCEPT ![a] = Tail(@)]
        /\ loc' = [loc EXCEPT ![a] = got]
        /\ Return(a, "HandshakeError: handshake unacknowledged")
        /\ UNCHANGED <<peers, sock, calls, adv>>
     \/ \* the profile cannot be sent
        /\ buf = Ack
        /\ inbox' = [inbox EXCEPT ![a] = Tail(@)]
        /\ loc' = [loc EXCEPT ![a] = [got EXCEPT !.out = Append(@, Out(to, desc, FALSE))]]
        /\ Panic(a, "panic: send")
        /\ UNCHANGED <<peers, sock, calls, adv>>
     \/ /\ buf = Ack
        /\ inbox' = Put([inbox EXCEPT ![a] = Tail(@)], to, Dgram(a, desc, None, Src(a)))
        /\ loc' = [loc EXCEPT ![a] = [got EXCEPT !.out = Append(@, Out(to, desc, TRUE))]]
        /\ pc' = [pc EXCEPT ![a] = "hs_reply"]
        /\ UNCHANGED <<peers, sock, ret, calls, adv>>

\* handshake, lines 176 and 195: a recv that ends with an error (the installed read
\* deadline passes with nothing queued) is unwrapped
HsRecvFails(a) ==
  /\ pc[a] \in {"hs_ack", "hs_reply"}
  /\ inbox[a] = << >>
  /\ sock[a].rt # None
  /\ Panic(a, "panic: recv")
  /\ UNCHANGED <<peers, sock, inbox, loc, calls, adv>>

\* handshake, lines 194-232: receive the reply, check the padding and the accept
\* byte, reconcile the directory, restore the deadlines
HsRecvReply(a) ==
  /\ pc[a] = "hs_reply"
  /\ inbox[a] # << >>
  /\ LET d == Head(inbox[a])
         buf == RecvInto(Fill(ReplyLen, 0), d.data)
         rec == HsReconcile(peers[a], buf, loc[a].target)
     IN
     /\ inbox' = [inbox EXCEPT ![a] = Tail(@)]
     /\ loc' = [loc EXCEPT ![a].rx = Append(@, d)]
     /\ \/ /\ ~PadOk(buf)
           /\ Return(a, "HandshakeError: handshake unacknowledged")
           /\ UNCHANGED <<peers, sock>>
        \/ /\ PadOk(buf) /\ Rejected(buf)
           /\ Return(a, "HandshakeError: handshake rejected")
           /\ UNCHANGED <<peers, sock>>
        \/ /\ PadOk(buf) /\ ~Rejected(buf) /\ ~rec.ok
           /\ Return(a, "HandshakeError: handshake connection malformed")
           /\ UNCHANGED <<peers, sock>>
        \/ /\ PadOk(buf) /\ ~Rejected(buf) /\ rec.ok
           /\ peers' = [peers EXCEPT ![a] = rec.peers]
           /\ sock' = [sock EXCEPT ![a].rt = loc[a].old_rt, ![a].wt = loc[a].old_wt]
           /\ Return(a, "Ok")
     /\ UNCHANGED <<calls, adv>>

\* -------------------------------------------------------------- listen
\* the waits a caller passes to listen, in seconds
ListenWaits == {0, 2}

\* a listen that saves the deadlines and installs none
LsBeginNoDeadline(a, wait) ==
  /\ pc[a] = "idle"
  /\ calls[a] < MaxCalls
  /\ calls' = [calls EXCEPT ![a] = @ + 1]
  /\ loc' = [loc EXCEPT ![a] = Entered(a, "listen", NoAddrDesc)]
  /\ pc' = [pc EXCEPT ![a] = "ls_invite"]
  /\ ret' = [ret EXCEPT ![a] = "running"]
  /\ UNCHANGED <<peers, sock, inbox, adv>>

\* listen, lines 240-250: save the deadlines, install the wait.  set_read_timeout
\* returns an Err for a zero Duration, which is unwrapped
LsBegin(a, wait) ==
  /\ pc[a] = "idle"
  /\ calls[a] < MaxCalls
  /\ calls' = [calls EXCEPT ![a] = @ + 1]
  /\ loc' = [loc EXCEPT ![a] = Entered(a, "listen", NoAddrDesc)]
  /\ \/ /\ wait = 0
        /\ Panic(a, "panic: zero timeout")
        /\ UNCHANGED sock
     \/ /\ wait # 0
        /\ sock' = [sock EXCEPT ![a].rt = Some(wait), ![a].wt = Some(wait)]
        /\ pc' = [pc EXCEPT ![a] = "ls_invite"]
        /\ ret' = [ret EXCEPT ![a] = "running"]
  /\ UNCHANGED <<peers, inbox, adv>>

\* a listen that, after acknowledging an invite, waits for the next invite
LsRecvInviteAgain(a) ==
  /\ pc[a] = "ls_invite"
  /\ inbox[a] # << >>
  /\ LET d == Head(inbox[a])
     IN  /\ RecvInto(Fill(InviteLen, 1), d.data) = Fill(InviteLen, 0)
         /\ inbox' = Put([inbox EXCEPT ![a] = Tail(@)], d.from, Dgram(a, Ack, None, Src(a)))
         /\ loc' = [loc EXCEPT ![a].rx = Append(@, d), ![a].sender = Some(d.from),
                               ![a].out = Append(@, Out(d.from, Ack, TRUE))]
  /\ UNCHANGED <<peers, sock, pc, ret, calls, adv>>

\* listen, lines 253-263: receive the invite from anyone, check it, ack its sender
LsRecvInvite(a) ==
  /\ pc[a] = "ls_invite"
  /\ inbox[a] # << >>
  /\ LET d == Head(inbox[a])
         buf == RecvInto(Fill(InviteLen, 1), d.data)
         got == [loc[a] EXCEPT !.rx = Append(@, d), !.sender = Some(d.from)]
     IN
     \/ /\ buf # Fill(InviteLen, 0)
        /\ inbox' = [inbox EXCEPT ![a] = Tail(@)]
        /\ loc' = [loc EXCEPT ![a] = got]
        /\ Return(a, "ListenError: malformed input")
        /\ UNCHANGED <<peers, sock, calls, adv>>
     \/ \* the ack cannot be sent
        /\ buf = Fill(InviteLen, 0)
        /\ inbox' = [inbox EXCEPT ![a] = Tail(@)]
        /\ loc' = [loc EXCEPT ![a] = [got EXCEPT !.out = Append(@, Out(d.from, Ack, FALSE))]]
        /\ Panic(a, "panic: send")
        /\ UNCHANGED <<peers, sock, calls, adv>>
     \/ /\ buf = Fill(InviteLen, 0)
        /\ inbox' = Put([inbox EXCEPT ![a] = Tail(@)], d.from, Dgram(a, Ack, None, Src(a)))
        /\ loc' = [loc EXCEPT ![a] = [got EXCEPT !.out = Append(@, Out(d.from, Ack, TRUE))]]
        /\ pc' = [pc EXCEPT ![a] = "ls_desc"]
        /\ UNCHANGED <<peers, sock, ret, calls, adv>>

\* listen, lines 254 and 267: a recv_from that ends with an error (the installed
\* read deadline passes with nothing queued) is unwrapped
LsRecvFails(a) ==
  /\ pc[a] \in {"ls_invite", "ls_desc"}
  /\ inbox[a] = << >>
  /\ sock[a].rt # None
  /\ Panic(a, "panic: recv")
  /\ UNCHANGED <<peers, sock, inbox, loc, calls, adv>>

\* the directory update that pushes without filtering
LsUpsertAppends(v, peer) ==
  [is_new |-> IF Contains(v, peer) THEN 0 ELSE 1, peers |-> Append(v, peer)]

\* the directory update of listen, lines 279-290
LsUpsert(v, peer) ==
  IF Contains(v, peer)
  THEN [is_new |-> 0, peers |-> Replaced(v, peer)]
  ELSE [is_new |-> 1, peers |-> Append(v, peer)]

\* the reply with the accept and isNew bytes in each other's place
ReplySwapped(is_new) == <<1, is_new, 1, 1>>

\* the reply of listen, line 293
Reply(is_new) == <<1, 1, is_new, 1>>

\* listen, lines 266-300: receive the identity frame from anyone, deserialize it,
\* require an address, update the directory, reply to the invite's sender, restore
\* the deadlines.  The bytes of a message frame's ciphertext are random: bincode
\* reads a sequence length out of them and fails
LsRecvDesc(a) ==
  /\ pc[a] = "ls_desc"
  /\ inbox[a] # << >>
  /\ LET d == Head(inbox[a])
         buf == RecvInto(Fill(FrameLen, 0), d.data)
         peer == Deserialize(buf)
         up == LsUpsert(peers[a], peer)
         to == loc[a].sender[1]
         got == [loc[a] EXCEPT !.rx = Append(@, d)]
     IN
     /\ \/ \* deserialize(..).unwrap() fails
           /\ ~(d.ct = None /\ Decodes(buf))
           /\ inbox' = [inbox EXCEPT ![a] = Tail(@)]
           /\ loc' = [loc EXCEPT ![a] = got]
           /\ Panic(a, "panic: deserialize")
           /\ UNCHANGED <<peers, sock>>
        \/ /\ d.ct = None /\ Decodes(buf)
           /\ peer.addr = None
           /\ inbox' = [inbox EXCEPT ![a] = Tail(@)]
           /\ loc' = [loc EXCEPT ![a] = got]
           /\ Return(a, "ListenError: peer did not send address")
           /\ UNCHANGED <<peers, sock>>
        \/ \* the directory is updated, the reply cannot be sent
           /\ d.ct = None /\ Decodes(buf)
           /\ peer.addr # None
           /\ peers' = [peers EXCEPT ![a] = up.peers]
           /\ inbox' = [inbox EXCEPT ![a] = Tail(@)]
           /\ loc' = [loc EXCEPT ![a] =
                        [got EXCEPT !.out = Append(@, Out(to, Reply(up.is_new), FALSE))]]
           /\ Panic(a, "panic: send")
           /\ UNCHANGED sock
        \/ /\ d.ct = None /\ Decodes(buf)
           /\ peer.addr # None
           /\ peers' = [peers EXCEPT ![a] = up.peers]
           /\ inbox' = Put([inbox EXCEPT ![a] = Tail(@)], to,
                           Dgram(a, Reply(up.is_new), None, Src(a)))
           /\ loc' = [loc EXCEPT ![a] =
                        [got EXCEPT !.out = Append(@, Out(to, Reply(up.is_new), TRUE))]]
           /\ sock' = [sock EXCEPT ![a].rt = loc[a].old_rt, ![a].wt = loc[a].old_wt]
           /\ Return(a, "Ok")
     /\ UNCHANGED <<calls, adv>>

\* ---------------------------------------------------------------- send
\* a plaintext: its length in bytes and what it says
Msg(len, id) == [len |-> len, id |-> id]

\* the plaintext lengths a caller passes to send_message
MsgLens == {0, KeyBits \div 8 - 11, KeyBits \div 8 - 10, MaxMsgLen, MaxMsgLen + 1}

\* PKCS#1 v1.5 encryption under a key of KeyBits bits takes at most k - 11 bytes
Encrypts(msg) == msg.len <= KeyBits \div 8 - 11

\* the ciphertext block: as long as the modulus, opened only by the key's owner
Encrypt(key, msg) == [len |-> KeyBits \div 8, key |-> key, msg |-> msg]

\* the frame header, lines 347-351: two zero bytes and the length, high byte first
Header(data_len) == <<0, 0, (data_len \div 256) % 256, data_len % 256>>

\* the lookup that takes the first entry, whatever its name
LookupFirst(v, name) == IF v = << >> THEN None ELSE Some(Head(v))

\* peers.iter().filter(|r| r.name == peer_name).next(), line 330
Lookup(v, name) ==
  LET hits == SelectSeq(v, LAMBDA r : r.name = name)
  IN  IF hits = << >> THEN None ELSE Some(Head(hits))

\* the length check off by one
TooLongOffByOne(msg) == msg.len > MaxMsgLen + 1

\* the length check, line 325
TooLong(msg) == msg.len > MaxMsgLen

\* send_message, lines 317-366: the length check, the lookup by name, the connect,
\* the encryption, the frame, the send.  io records that the socket was used, enc
\* that the plaintext was encrypted
SendMessage(a, msg, name) ==
  /\ pc[a] = "idle"
  /\ calls[a] < MaxCalls
  /\ calls' = [calls EXCEPT ![a] = @ + 1]
  /\ LET enter == [Entered(a, "send", NoAddrDesc) EXCEPT !.msg = msg, !.name = name]
         found == Lookup(peers[a], name)
         peer == found[1]
         ct == Encrypt(peer.key, msg)
         frame == Header(ct.len)
         linked == [sock EXCEPT ![a].conn = peer.addr]
     IN
     \/ /\ TooLong(msg)
        /\ loc' = [loc EXCEPT ![a] = enter]
        /\ Return(a, "SendError: message too long")
        /\ UNCHANGED <<sock, inbox>>
     \/ /\ ~TooLong(msg)
        /\ found = None
        /\ loc' = [loc EXCEPT ![a] = enter]
        /\ Return(a, "SendError: name is not in peers list")
        /\ UNCHANGED <<sock, inbox>>
     \/ \* connect fails
        /\ ~TooLong(msg)
        /\ found # None
        /\ loc' = [loc EXCEPT ![a] = [enter EXCEPT !.io = TRUE]]
        /\ Return(a, "SendError: peer disconnected")
        /\ UNCHANGED <<sock, inbox>>
     \/ \* encrypt(..).unwrap() of a plaintext the key cannot take
        /\ ~TooLong(msg)
        /\ found # None
        /\ ~Encrypts(msg)
        /\ loc' = [loc EXCEPT ![a] = [enter EXCEPT !.io = TRUE]]
        /\ sock' = linked
        /\ Panic(a, "panic: encrypt")
        /\ UNCHANGED inbox
     \/ \* the frame cannot be sent
        /\ ~TooLong(msg)
        /\ found # None
        /\ Encrypts(msg)
        /\ loc' = [loc EXCEPT ![a] =
                     [enter EXCEPT !.io = TRUE, !.enc = TRUE,
                                   !.out = <<Out(peer.addr[1], frame, FALSE)>>]]
        /\ sock' = linked
        /\ Panic(a, "panic: send")
        /\ UNCHANGED inbox
     \/ /\ ~TooLong(msg)
        /\ found # None
        /\ Encrypts(msg)
        /\ loc' = [loc EXCEPT ![a] =
                     [enter EXCEPT !.io = TRUE, !.enc = TRUE,
                                   !.out = <<Out(peer.addr[1], frame, TRUE)>>]]
        /\ sock' = linked
        /\ inbox' = Put(inbox, peer.addr[1], Dgram(a, frame, Some(ct), <<a, calls[a] + 1>>))
        /\ Return(a, "Ok")
  /\ UNCHANGED <<peers, adv>>

\* ------------------------------------------------------------- receive
RECURSIVE Pow2(_)
Pow2(n) == IF n = 0 THEN 1 ELSE 2 * Pow2(n - 1)

\* line 390, ((buf[2] as u16) << 8 + buf[3]): + binds tighter than <<, so the high
\* byte is shifted by 8 + buf[3].  Without overflow checks the u8 sum wraps, the
\* shift count of a u16 is taken modulo 16 and the result keeps its low 16 bits
ShiftedLen(hi, lo) == (hi * Pow2(((8 + lo) % 256) % 16)) % 65536

\* line 390 in a build with overflow checks: the u8 sum 8 + buf[3] or the shift of
\* a u16 by 16 or more panics
LenOverflows(lo) == 8 + lo > 255 \/ 8 + lo >= 16

\* the private key's decryption of the slice buf[4..len+4] of a datagram: it opens
\* when the slice is exactly one ciphertext block made under the agent's public key
Opens(a, d, len) == d.ct # None /\ d.ct[1].len = len /\ d.ct[1].key = PubKey(a)

\* recv_message, lines 373-379: the call starts and blocks in socket.recv
RcvBegin(a) ==
  /\ pc[a] = "idle"
  /\ calls[a] < MaxCalls
  /\ calls' = [calls EXCEPT ![a] = @ + 1]
  /\ loc' = [loc EXCEPT ![a] = Entered(a, "receive", NoAddrDesc)]
  /\ pc' = [pc EXCEPT ![a] = "rm_recv"]
  /\ ret' = [ret EXCEPT ![a] = "running"]
  /\ UNCHANGED <<peers, sock, inbox, adv>>

\* recv_message, line 379: the recv ends with an error (a read deadline is installed
\* and passes with nothing queued) and is unwrapped
RcvFails(a) ==
  /\ pc[a] = "rm_recv"
  /\ inbox[a] = << >>
  /\ sock[a].rt # None
  /\ Panic(a, "panic: recv")
  /\ UNCHANGED <<peers, sock, inbox, loc, calls, adv>>

\* recv_message, lines 378-399, on the socket, the locals, the queue and the result:
\* receive one datagram into the zeroed buffer, check the two marker bytes, compute
\* the length, slice, decrypt
RcvTakes(a) ==
  /\ pc[a] = "rm_recv"
  /\ inbox[a] # << >>
  /\ LET d == Head(inbox[a])
         hdr == RecvInto(Fill(HeaderLen, 0), d.data)
         len == ShiftedLen(hdr[3], hdr[4])
         took == [loc[a] EXCEPT !.rx = Append(@, d)]
     IN
     /\ inbox' = [inbox EXCEPT ![a] = Tail(@)]
     /\ \/ /\ hdr[1] # hdr[2] \/ hdr[2] # 0
           /\ loc' = [loc EXCEPT ![a] = took]
           /\ Return(a, "ReceiveError: incorrect setup values")
        \/ \* a build with overflow checks
           /\ hdr[1] = hdr[2] /\ hdr[2] = 0
           /\ LenOverflows(hdr[4])
           /\ loc' = [loc EXCEPT ![a] = took]
           /\ Panic(a, "panic: overflow")
        \/ \* the slice ends beyond the buffer
           /\ hdr[1] = hdr[2] /\ hdr[2] = 0
           /\ len + HeaderLen > MsgBufLen
           /\ loc' = [loc EXCEPT ![a] = took]
           /\ Panic(a, "panic: slice")
        \/ /\ hdr[1] = hdr[2] /\ hdr[2] = 0
           /\ len + HeaderLen <= MsgBufLen
           /\ ~Opens(a, d, len)
           /\ loc' = [loc EXCEPT ![a] = [took EXCEPT !.cut = Some(len)]]
           /\ Return(a, "ReceiveError: decryption error")
        \/ /\ hdr[1] = hdr[2] /\ hdr[2] = 0
           /\ len + HeaderLen <= MsgBufLen
           /\ Opens(a, d, len)
           /\ loc' = [loc EXCEPT ![a] = [took EXCEPT !.cut = Some(len),
                                                     !.got = Some(d.ct[1].msg)]]
           /\ Return(a, "Ok")
  /\ UNCHANGED <<sock, calls, adv>>

\* a receive that registers the sender of the datagram it took
RcvMessageRegisters(a) ==
  /\ RcvTakes(a)
  /\ peers' = [peers EXCEPT ![a] = Append(@, Desc(Some(Head(inbox[a]).from), 0, 0))]

\* recv_message, lines 373-404: nothing of the agent but the socket's queue is written
RcvMessage(a) ==
  /\ RcvTakes(a)
  /\ UNCHANGED peers

\* ----------------------------------------------------- the scripted peer
\* the 4-byte replies the scripted peer may send
AdvReplies ==
  {<<1, acc, isn, 1>> : acc \in {0, 1}, isn \in {0, 1, 2}} \cup {<<0, 1, 1, 1>>}

\* the identity frames the scripted peer may send: its own description at either
\* address, one without address, agent 1's identity at a new address, agent 1's
\* name under another key, and a frame bincode rejects
AdvFrames ==
  {Serialize(AdvDesc(x)) : x \in AdvAddrs}
    \cup {Serialize(NoAddrDesc), Serialize(Desc(Some(4), PubKey(1), 1)),
          Serialize(Desc(Some(3), PubKey(3), 1)), Fill(FrameLen, 2)}

\* what the scripted peer may send to an agent blocked in a receive: frames of the
\* shape that receive expects, well-formed or not, and one frame of another shape
AdvMenu(at) ==
  CASE at = "ls_invite" -> {Invite, Fill(InviteLen - 1, 0), Fill(InviteLen + 1, 0), Ack}
    [] at = "hs_ack" -> {Ack, Invite}
    [] at = "hs_reply" -> AdvReplies \cup {Ack}
    [] at = "ls_desc" -> AdvFrames \cup {Invite}
    [] OTHER -> {}

\* the address the scripted peer sends from: the one agent a's socket is connected
\* to when that is its second address, its first address otherwise
AdvFrom(a) == IF sock[a].conn = Some(4) THEN 4 ELSE 3

\* the scripted peer answers a blocked receive of agent a with one datagram of its
\* menu
AdvSend(a, from, data) ==
  /\ adv < MaxAdv
  /\ inbox[a] = << >>
  /\ data \in AdvMenu(pc[a])
  /\ adv' = adv + 1
  /\ inbox' = Put(inbox, a, Dgram(from, data, None, <<0, 0>>))
  /\ inbox' # inbox
  /\ UNCHANGED <<peers, sock, pc, loc, ret, calls>>

\* ------------------------------------------------------- specification
\* the descriptions a caller passes to handshake
Targets(a) ==
  {Profile(b) : b \in Agents \ {a}} \cup {AdvDesc(x) : x \in AdvAddrs} \cup {NoAddrDesc}

Next ==
  \/ \E a \in Agents : \E t \in Targets(a) : HsBegin(a, t)
  \/ \E a \in Agents : HsRecvAck(a)
  \/ \E a \in Agents : HsRecvReply(a)
  \/ \E a \in Agents : HsRecvFails(a)
  \/ \E a \in Agents : \E w \in ListenWaits : LsBegin(a, w)
  \/ \E a \in Agents : LsRecvInvite(a)
  \/ \E a \in Agents : LsRecvDesc(a)
  \/ \E a \in Agents : LsRecvFails(a)
  \/ \E a \in Agents : \E data \in AdvMenu(pc[a]) : AdvSend(a, AdvFrom(a), data)

Spec == Init /\ [][Next]_vars

\* directories an agent can hold after earlier handshakes: without identity-equal
\* entries, every entry with an address (each is what a run of listen calls that
\* receive these identity frames in this order leaves behind)
Dirs(a) ==
  LET b == CHOOSE x \in Agents : x # a
      moved == Desc(Some(4), PubKey(b), b)
      third == Desc(Some(3), PubKey(3), b)
  IN  {<< >>, <<Profile(b)>>, <<AdvDesc(3), moved>>,
       <<Profile(b), third, AdvDesc(4)>>, <<AdvDesc(3), Profile(b), third>>}

\* agents that have such directories and one call left
InitDir ==
  \E d1 \in Dirs(1) : \E d2 \in Dirs(2) :
    InitWith([a \in Agents |-> IF a = 1 THEN d1 ELSE d2], [a \in Agents |-> MaxCalls - 1])

\* a step of agent a's running handshake or listen: its blocked receive returns,
\* with a datagram or with an error
AgentStep(a) ==
  \/ HsRecvAck(a) \/ HsRecvReply(a) \/ HsRecvFails(a)
  \/ LsRecvInvite(a) \/ LsRecvDesc(a) \/ LsRecvFails(a)

\* new agents with one call left
InitOne == InitWith([a \in Agents |-> << >>], [a \in Agents |-> MaxCalls - 1])

\* the same steps, where a blocked receive does return: the socket hands over a
\* queued datagram or reports that the installed deadline has passed
SpecLive == InitOne /\ [][Next]_vars /\ \A a \in Agents : WF_vars(AgentStep(a))

\* one handshake or listen call per agent, from any of these directories
SpecDir == InitDir /\ [][Next]_vars

NextMsg ==
  \E a \in Agents : \E n \in MsgLens : \E name \in {1, 2, 3} \ {a} :
    SendMessage(a, Msg(n, 1), name)

\* one send_message call per agent, from any of these directories
SpecMsg == InitDir /\ [][NextMsg]_vars

\* the message frames the scripted peer may send to agent a: a block made under a's
\* public key behind the header send_message writes, a block made under another key,
\* a frame with a marker byte set, and frames without a block whose length bytes are
\* 5, 257, 264, 1023 and 1024
AdvMsgFrames(a) ==
  {[data |-> Header(KeyBits \div 8), ct |-> Some(Encrypt(PubKey(k), Msg(3, 3)))] : k \in {a, 3}}
    \cup {[data |-> h, ct |-> None] :
            h \in {<<1, 0, 1, 0>>, <<0, 0, 0, 5, 9, 9, 9, 9, 9>>, <<0, 0, 1, 1>>,
                   <<0, 0, 1, 8>>, <<0, 0, 3, 255>>, <<0, 0, 4, 0>>}}

\* the scripted peer answers a blocked recv_message of agent a with one message frame
AdvSendMsg(a, from, f) ==
  /\ adv < MaxAdv
  /\ pc[a] = "rm_recv"
  /\ inbox[a] = << >>
  /\ f \in AdvMsgFrames(a)
  /\ adv' = adv + 1
  /\ inbox' = Put(inbox, a, Dgram(from, f.data, f.ct, <<0, 0>>))
  /\ inbox' # inbox
  /\ UNCHANGED <<peers, sock, pc, loc, ret, calls>>

\* the plaintexts a caller passes to send_message
Msgs == {Msg(n, id) : n \in MsgLens, id \in {1, 2}}

\* the socket an agent can hold after earlier calls: fresh; connected to the other
\* agent by a handshake that succeeded; connected and left with the handshake's
\* deadlines by a handshake that returned an error
Socks(a) ==
  LET b == CHOOSE x \in Agents : x # a
  IN  {[rt |-> None, wt |-> None, conn |-> None],
       [rt |-> None, wt |-> None, conn |-> Some(b)],
       [rt |-> Some(HandshakeSecs), wt |-> Some(HandshakeSecs), conn |-> Some(b)]}

\* agents that have such directories and sockets and one call left
InitRecv ==
  \E d1 \in Dirs(1) : \E d2 \in Dirs(2) : \E s1 \in Socks(1) : \E s2 \in Socks(2) :
    /\ peers = [a \in Agents |-> IF a = 1 THEN d1 ELSE d2]
    /\ sock = [a \in Agents |-> IF a = 1 THEN s1 ELSE s2]
    /\ calls = [a \in Agents |-> MaxCalls - 1]
    /\ inbox = [a \in Agents |-> << >>]
    /\ pc = [a \in Agents |-> "idle"]
    /\ loc = [a \in Agents |-> NoLoc]
    /\ ret = [a \in Agents |-> "none"]
    /\ adv = 0

NextRecv ==
  \/ \E a \in Agents : \E m \in Msgs : \E name \in {1, 2, 3} \ {a} : SendMessage(a, m, name)
  \/ \E a \in Agents : RcvBegin(a)
  \/ \E a \in Agents : RcvMessage(a)
  \/ \E a \in Agents : RcvFails(a)
  \/ \E a \in Agents : \E f \in AdvMsgFrames(a) : AdvSendMsg(a, AdvFrom(a), f)

\* one send_message or recv_message call per agent
SpecRecv == InitRecv /\ [][NextRecv]_vars

\* the network loses the i-th datagram queued for agent a
Lose(a, i) ==
  /\ i \in 1..Len(inbox[a])
  /\ inbox' = [inbox EXCEPT ![a] = SubSeq(@, 1, i - 1) \o SubSeq(@, i + 1, Len(@))]
  /\ UNCHANGED <<peers, sock, pc, loc, ret, calls, adv>>

\* two agents that handshake with and listen to each other only, over a network that
\* may lose datagrams
NextLossy ==
  \/ \E a \in Agents : \E b \in Agents \ {a} : HsBegin(a, Profile(b))
  \/ \E a \in Agents : HsRecvAck(a)
  \/ \E a \in Agents : HsRecvReply(a)
  \/ \E a \in Agents : HsRecvFails(a)
  \/ \E a \in Agents : \E w \in ListenWaits : LsBegin(a, w)
  \/ \E a \in Agents : LsRecvInvite(a)
  \/ \E a \in Agents : LsRecvDesc(a)
  \/ \E a \in Agents : LsRecvFails(a)
  \/ \E a \in Agents : \E i \in 1..MaxInbox : Lose(a, i)

SpecLossy == Init /\ [][NextLossy]_vars

\* ---------------------------------------------------------------- claims
\* the buffer a receive of the call filled from its i-th datagram
Buf(a, i, init) == RecvInto(init, loc[a].rx[i].data)

\* a handshake of a and a listen of b that returned success for one exchange: each
\* received both of its datagrams from the other's call
SameExchange(a, b) ==
  /\ a # b
  /\ loc[a].op = "handshake" /\ pc[a] = "idle" /\ ret[a] = "Ok"
  /\ loc[b].op = "listen" /\ pc[b] = "idle" /\ ret[b] = "Ok"
  /\ \A i \in 1..2 : loc[b].rx[i].src = Src(a) /\ loc[a].rx[i].src = Src(b)

\* C1: when handshake(target) of one agent and listen of another both return
\* success for the same exchange, the initiator's directory holds the target's
\* identity exactly once and the responder's directory holds the initiator's
\* profile identity exactly once, whatever the directories held before.
C1_BothRegisteredOnce ==
  \A a, b \in Agents :
    SameExchange(a, b) =>
      /\ Count(peers[a], loc[a].target) = 1
      /\ Count(peers[b], Profile(a)) = 1

\* an exchange that succeeded between two agents whose directories both held two
\* or more entries before it
C1_Witness ==
  \E a, b \in Agents :
    SameExchange(a, b) /\ Len(loc[a].before) >= 2 /\ Len(loc[b].before) >= 2

\* the reply buffer of a handshake that has received its reply
ReplyBuf(a) == Buf(a, 2, Fill(ReplyLen, 0))

\* agent a's handshake has received and processed its reply
GotReply(a) == loc[a].op = "handshake" /\ Len(loc[a].rx) = 2

\* C2: a reply with correct padding (first and last byte 1) and accept byte 0 makes
\* handshake return HandshakeError("handshake rejected") and leaves the initiator's
\* directory as it was before the call (same entries, same order), whatever the
\* isNew byte is.
C2_RejectedKeepsDirectory ==
  \A a \in Agents :
    (GotReply(a) /\ ReplyBuf(a)[1] = 1 /\ ReplyBuf(a)[4] = 1 /\ ReplyBuf(a)[2] = 0) =>
      /\ pc[a] = "idle"
      /\ ret[a] = "HandshakeError: handshake rejected"
      /\ peers[a] = loc[a].before

\* a rejected handshake whose reply said isNew = 1 about a target the directory,
\* which held other entries, did not hold
C2_Witness ==
  \E a \in Agents :
    /\ GotReply(a) /\ ret[a] = "HandshakeError: handshake rejected"
    /\ ReplyBuf(a)[3] = 1
    /\ loc[a].before # << >> /\ ~Contains(loc[a].before, loc[a].target)

\* C3: in every reachable state of an agent, after any handshake and listen calls,
\* no two entries of its directory are identity-equal (same name and same key).
C3_NoIdentityTwice ==
  \A a \in Agents : \A i, j \in 1..Len(peers[a]) :
    i # j => ~(peers[a][i].key = peers[a][j].key /\ peers[a][i].name = peers[a][j].name)

\* a call that succeeded on a record whose identity the directory already held, at
\* another address
C3_Witness ==
  \E a \in Agents :
    /\ ret[a] = "Ok" /\ loc[a].op \in {"handshake", "listen"}
    /\ Len(peers[a]) = Len(loc[a].before)
    /\ peers[a] # loc[a].before

\* C4: on every exit path of handshake and listen the socket's read and write
\* deadlines equal those it had before the call; stated here for the calls that
\* return (success or a returned error).
C4_DeadlinesRestored ==
  \A a \in Agents :
    (loc[a].op \in {"handshake", "listen"} /\ pc[a] = "idle") =>
      /\ sock[a].rt = loc[a].old_rt
      /\ sock[a].wt = loc[a].old_wt

\* C5: no call ends in a process abort: every failure, a receive that times out
\* among them, is returned as an error value, and a timeout while handshake waits
\* for the ack or the reply returns HandshakeError("handshake unacknowledged");
\* stated here for the receives.
C5_TimeoutIsReturned ==
  \A a \in Agents :
    /\ ret[a] # "panic: recv"
    /\ (loc[a].op = "handshake" /\ pc[a] = "aborted" /\ loc[a].out # << >>
          /\ loc[a].out[Len(loc[a].out)].sent)
        => ret[a] = "HandshakeError: handshake unacknowledged"

\* some entry of v has r's key and r's name
Holds(v, r) == \E i \in 1..Len(v) : v[i].key = r.key /\ v[i].name = r.name

\* new is old with its entry of r's identity taken out, the entries after it moved
\* up by one, and r put at the end
MovedToEnd(old, r, new) ==
  \E k \in 1..Len(old) :
    /\ old[k].key = r.key /\ old[k].name = r.name
    /\ Len(new) = Len(old)
    /\ \A i \in 1..Len(old) :
         new[i] = IF i < k THEN old[i] ELSE IF i < Len(old) THEN old[i + 1] ELSE r

\* C6: after an accepted reply handshake reconciles isNew with its own directory:
\* isNew = 1 and the target absent appends the target; isNew = 0 and the target
\* present replaces the entry with the target; every other case returns
\* HandshakeError("handshake connection malformed") and leaves the directory as it was.
C6_Reconciled ==
  \A a \in Agents :
    (GotReply(a) /\ ReplyBuf(a)[1] = 1 /\ ReplyBuf(a)[4] = 1 /\ ReplyBuf(a)[2] # 0) =>
      LET t == loc[a].target
          old == loc[a].before
      IN  /\ pc[a] = "idle"
          /\ IF ReplyBuf(a)[3] = 1 /\ ~Holds(old, t)
             THEN ret[a] = "Ok" /\ peers[a] = old \o <<t>>
             ELSE IF ReplyBuf(a)[3] = 0 /\ Holds(old, t)
             THEN ret[a] = "Ok" /\ MovedToEnd(old, t, peers[a])
             ELSE /\ ret[a] = "HandshakeError: handshake connection malformed"
                  /\ peers[a] = old

\* a handshake that replaced an entry which was not the last of its directory
C6_Witness ==
  \E a \in Agents :
    /\ GotReply(a) /\ ret[a] = "Ok" /\ ReplyBuf(a)[3] = 0
    /\ ~Holds(<<loc[a].before[Len(loc[a].before)]>>, loc[a].target)

\* the record in the identity frame a listen received, read field by field
FramePeer(a) ==
  LET f == loc[a].rx[2].data
  IN  [addr |-> <<f[2]>>, key |-> f[3], name |-> f[4]]

\* agent a's listen received a valid invite and then an identity frame with an address
GotAddressedFrame(a) ==
  /\ loc[a].op = "listen" /\ Len(loc[a].rx) = 2
  /\ loc[a].rx[2].ct = None /\ Len(loc[a].rx[2].data) >= 4 /\ loc[a].rx[2].data[1] = 1

\* C7: a listen that receives a valid invite and an identity frame with an address
\* replies exactly [1, 1, isNew, 1], isNew = 0 iff an identity-equal record was in the
\* directory before the call, upserts the record (replaced if present, appended if
\* not) and addresses the reply to the sender of the invite.
C7_ReplyAndUpsert ==
  \A a \in Agents :
    GotAddressedFrame(a) =>
      LET r == FramePeer(a)
          old == loc[a].before
      IN  /\ Len(loc[a].out) = 2
          /\ loc[a].out[2].data = <<1, 1, (IF Holds(old, r) THEN 0 ELSE 1), 1>>
          /\ loc[a].out[2].to = loc[a].rx[1].from
          /\ IF Holds(old, r) THEN MovedToEnd(old, r, peers[a]) ELSE peers[a] = old \o <<r>>
          /\ loc[a].out[2].sent => pc[a] = "idle" /\ ret[a] = "Ok"

\* a listen that answered isNew = 0 to the sender of the invite and moved the record
C7_Witness ==
  \E a \in Agents :
    /\ GotAddressedFrame(a) /\ ret[a] = "Ok"
    /\ Holds(loc[a].before, FramePeer(a))
    /\ peers[a] # loc[a].before
    /\ loc[a].out[2].sent

\* the bytes do not fill the invite buffer with zeros: fewer than eight of them, or
\* one of the first eight is not zero
NotZeroInvite(data) ==
  Len(data) < InviteLen \/ \E i \in 1..InviteLen : data[i] # 0

\* agent a's listen refused its first datagram: it returned malformed input, sent
\* nothing, received nothing more and left the directory as it was
Refused(a) ==
  /\ pc[a] = "idle" /\ ret[a] = "ListenError: malformed input"
  /\ Len(loc[a].rx) = 1 /\ loc[a].out = << >>
  /\ peers[a] = loc[a].before

\* C8 as stated: a first datagram that is not exactly 8 zero bytes makes listen
\* return ListenError("malformed input") without ack, reply or directory change
\* (stated for the calls that do not abort).
C8_NotExactlyEightZeros ==
  \A a \in Agents :
    (/\ loc[a].op = "listen" /\ pc[a] # "aborted"
     /\ loc[a].rx # << >> /\ loc[a].rx[1].data # Fill(InviteLen, 0))
      => Refused(a)

\* C8 as amended: a first datagram that is shorter than 8 bytes, or whose first 8
\* bytes are not all zero, makes listen return ListenError("malformed input")
\* without ack, reply or directory change; a datagram whose first 8 bytes are zero
\* is taken as an invite, whatever follows them.
C8_FirstEightNotZero ==
  \A a \in Agents :
    (loc[a].op = "listen" /\ loc[a].rx # << >>) =>
      IF NotZeroInvite(loc[a].rx[1].data)
      THEN Refused(a)
      ELSE ret[a] # "ListenError: malformed input" /\ loc[a].out # << >>

\* a listen that has accepted an invite, called after a listen of the same agent
\* returned malformed input
C8_Witness ==
  \E a \in Agents :
    /\ loc[a].prev = "ListenError: malformed input"
    /\ loc[a].op = "listen" /\ pc[a] = "ls_desc"

\* the record a call of handshake or listen put into the directory, if it put one
Upserted(a) ==
  IF loc[a].op = "handshake" /\ pc[a] = "idle" /\ ret[a] = "Ok" THEN <<loc[a].target>>
  ELSE IF GotAddressedFrame(a) THEN <<FramePeer(a)>>
  ELSE << >>

\* C9: the upsert of handshake and listen: a record identity-equal to an entry keeps
\* the count, removes the old entry and puts the record, with its address, at the end,
\* the other entries keeping their order; a record that matches no entry raises the
\* count by one and is put at the end.
C9_Upsert ==
  \A a \in Agents :
    Upserted(a) # << >> =>
      LET r == Upserted(a)[1]
          old == loc[a].before
          new == peers[a]
          rest == SelectSeq(old, LAMBDA x : x.key # r.key \/ x.name # r.name)
      IN  /\ Len(new) = IF Holds(old, r) THEN Len(old) ELSE Len(old) + 1
          /\ new[Len(new)] = r
          /\ SubSeq(new, 1, Len(new) - 1) = rest
          /\ Holds(old, r) => Len(rest) = Len(old) - 1

\* an upsert that replaced the first of three entries by a record with another address
C9_Witness ==
  \E a \in Agents :
    /\ Upserted(a) # << >>
    /\ Len(loc[a].before) = 3
    /\ Holds(<<loc[a].before[1]>>, Upserted(a)[1])
    /\ loc[a].before[1].addr # Upserted(a)[1].addr
    /\ peers[a][3] = Upserted(a)[1]

\* C10: a send whose plaintext is longer than 512 bytes returns
\* SendError("message too long") before any connect, any encryption and any
\* datagram: nothing is emitted by that call.
C10_TooLongBeforeIo ==
  \A a \in Agents :
    (loc[a].op = "send" /\ loc[a].msg.len > 512) =>
      /\ pc[a] = "idle"
      /\ ret[a] = "SendError: message too long"
      /\ ~loc[a].io /\ ~loc[a].enc /\ loc[a].out = << >>
      /\ sock[a].conn = None
      /\ \A b \in Agents : \A i \in 1..Len(inbox[b]) : inbox[b][i].src # Src(a)

\* a send of 513 bytes to a peer the directory holds, refused as too long
C10_Witness ==
  \E a \in Agents :
    /\ loc[a].op = "send" /\ loc[a].msg.len = MaxMsgLen + 1
    /\ ret[a] = "SendError: message too long"
    /\ \E i \in 1..Len(peers[a]) : peers[a][i].name = loc[a].name

\* agent a's send named a peer whose name no entry of its directory carries
AbsentName(a) ==
  loc[a].op = "send" /\ \A i \in 1..Len(peers[a]) : peers[a][i].name # loc[a].name

\* agent a's send returned r, used neither the socket nor the key, and emitted nothing
RefusedSend(a, r) ==
  /\ pc[a] = "idle" /\ ret[a] = r
  /\ ~loc[a].io /\ ~loc[a].enc /\ loc[a].out = << >>
  /\ sock[a].conn = None
  /\ \A b \in Agents : \A i \in 1..Len(inbox[b]) : inbox[b][i].src # Src(a)

\* C11 as stated: a send whose peer name matches no entry of the directory returns
\* SendError("name is not in peers list") and transmits no datagram, for every
\* payload: the lookup is the first check applied to the arguments.
C11_AbsentNameAnyPayload ==
  \A a \in Agents :
    AbsentName(a) => RefusedSend(a, "SendError: name is not in peers list")

\* C11 as amended: the length check comes first.  A send of at most 512 bytes whose
\* peer name matches no entry returns SendError("name is not in peers list"), a
\* longer one returns SendError("message too long"); neither transmits a datagram.
C11_AbsentNameAfterLength ==
  \A a \in Agents :
    AbsentName(a) =>
      IF loc[a].msg.len <= 512
      THEN RefusedSend(a, "SendError: name is not in peers list")
      ELSE RefusedSend(a, "SendError: message too long")

\* a send of 512 bytes refused for its name by an agent whose directory holds entries
C11_Witness ==
  \E a \in Agents :
    /\ AbsentName(a) /\ loc[a].msg.len = MaxMsgLen /\ peers[a] # << >>
    /\ ret[a] = "SendError: name is not in peers list"

\* agent b's receive took the datagram that agent a's send emitted
Delivered(a, b) ==
  /\ loc[a].op = "send" /\ loc[b].op = "receive"
  /\ loc[b].rx # << >> /\ loc[b].rx[1].src = Src(a)

\* what a send and the receive that took its datagram owe each other: the receive
\* returned the plaintext that was sent
ReturnsSent(a, b) ==
  Delivered(a, b) => ret[b] = "Ok" /\ loc[b].got = Some(loc[a].msg)

\* C12: for every plaintext of 0 to 512 bytes that agent a sends to a peer its
\* directory holds, the send encrypts and frames it, and the receive of the peer
\* that takes the datagram returns exactly that plaintext.
C12_RoundTrip ==
  \A a \in Agents :
    (/\ loc[a].op = "send" /\ loc[a].msg.len <= 512
     /\ \E i \in 1..Len(peers[a]) : peers[a][i].name = loc[a].name)
      => /\ ret[a] # "panic: encrypt"
         /\ \A b \in Agents \ {a} : ReturnsSent(a, b)

\* the part of C12 the code keeps: whatever send did emit is returned by the receive
\* that takes it
C12_DeliveredIsReturned ==
  \A a \in Agents : \A b \in Agents \ {a} : ReturnsSent(a, b)

\* the two-byte big-endian length: the high byte times 256 plus the low byte
BigEndianLen(hi, lo) == hi * 256 + lo

\* the first four bytes of the buffer of a receive that has taken its datagram
MsgHeader(a) == Buf(a, 1, Fill(HeaderLen, 0))

\* C13: for a received frame whose two marker bytes are zero, receive decodes the
\* length as (lenHi << 8) | lenLo and hands exactly that many bytes after the 4-byte
\* header to decryption (stated here for the calls that return).
C13_BigEndianLength ==
  \A a \in Agents :
    (/\ loc[a].op = "receive" /\ pc[a] = "idle" /\ loc[a].rx # << >>
     /\ MsgHeader(a)[1] = 0 /\ MsgHeader(a)[2] = 0)
      => loc[a].cut = Some(BigEndianLen(MsgHeader(a)[3], MsgHeader(a)[4]))

\* C16: send and receive leave the peer directory as they found it, whether they
\* succeed or fail: in every state of a send or receive call, running or ended,
\* the agent's directory is the one the call found.
C16_SendReceiveKeepDirectory ==
  \A a \in Agents :
    loc[a].op \in {"send", "receive"} => peers[a] = loc[a].before

\* an agent whose directory holds three entries received a message that its key
\* opened, from a send that succeeded from a directory of entries
C16_Witness ==
  \E a, b \in Agents :
    /\ Delivered(a, b) /\ ret[a] = "Ok" /\ ret[b] = "Ok"
    /\ Len(peers[b]) = 3 /\ peers[a] # << >>

\* the sends of agent a's call that carried the bytes data
Sends(a, data) == {i \in 1..Len(loc[a].out) : loc[a].out[i].data = data}

\* the sends of agent a's call that carried a 4-byte reply
ReplySends(a) == {i \in 1..Len(loc[a].out) : Len(loc[a].out[i].data) = ReplyLen}

\* new is old with at most one record upserted
OneUpsert(old, new) ==
  \/ new = old
  \/ \E r \in {new[i] : i \in 1..Len(new)} :
       new = SelectSeq(old, LAMBDA x : x.key # r.key \/ x.name # r.name) \o <<r>>

\* C14: one listen call services one initiator, however many send it datagrams: it
\* sends at most one ack and at most one reply and upserts at most one record.
C14_OneServicedPerCall ==
  \A a \in Agents :
    loc[a].op = "listen" =>
      /\ Cardinality(Sends(a, Ack)) <= 1
      /\ Cardinality(ReplySends(a)) <= 1
      /\ Len(loc[a].out) <= 2
      /\ OneUpsert(loc[a].before, peers[a])

\* a listen that returned success to one initiator while the invite of another
\* initiator is queued at its socket
C14_Witness ==
  \E a \in Agents :
    /\ loc[a].op = "listen" /\ pc[a] = "idle" /\ ret[a] = "Ok"
    /\ \E i \in 1..Len(inbox[a]) :
         inbox[a][i].data = Invite /\ inbox[a][i].from # loc[a].rx[1].from

\* the responder's half of C15: the ack is its first send and follows a datagram that
\* filled the invite buffer with zeros; the reply is its second send and follows a
\* second datagram, the identity frame
ListenInOrder(a) ==
  /\ Len(loc[a].out) <= Len(loc[a].rx)
  /\ Len(loc[a].out) >= 1 =>
       /\ Buf(a, 1, Fill(InviteLen, 1)) = Invite
       /\ loc[a].out[1].data = Ack
  /\ Len(loc[a].out) >= 2 =>
       /\ loc[a].rx[2].ct = None /\ Decodes(Buf(a, 2, Fill(FrameLen, 0)))
       /\ Len(loc[a].out[2].data) = ReplyLen
  /\ peers[a] # loc[a].before => Len(loc[a].rx) = 2

\* the initiator's half of C15: the invite is its first send; the identity frame is
\* its second send and follows a datagram that filled the buffer with eights; the
\* directory changes only after a reply with both padding bytes 1 and accept not 0
HandshakeInOrder(a) ==
  /\ Len(loc[a].out) <= Len(loc[a].rx) + 1
  /\ Len(loc[a].out) >= 1 => loc[a].out[1].data = Invite
  /\ Len(loc[a].out) >= 2 =>
       /\ Buf(a, 1, Fill(InviteLen, 0)) = Ack
       /\ loc[a].out[2].data = Serialize(Profile(a))
  /\ peers[a] # loc[a].before =>
       /\ Len(loc[a].rx) = 2 /\ Len(loc[a].out) = 2
       /\ ReplyBuf(a)[1] = 1 /\ ReplyBuf(a)[4] = 1 /\ ReplyBuf(a)[2] # 0

\* C15: within one handshake exchange the messages are request-then-reply: the
\* responder acks only after an invite it accepts and replies only after the identity
\* frame; the initiator sends its identity frame only after an all-eights ack and
\* changes its directory only after a well-padded, accepting reply.
C15_RequestThenReply ==
  \A a \in Agents :
    /\ loc[a].op = "listen" => ListenInOrder(a)
    /\ loc[a].op = "handshake" => HandshakeInOrder(a)

\* an exchange of two agents that went through all four datagrams and changed both
\* directories
C15_Witness ==
  \E a, b \in Agents :
    /\ SameExchange(a, b)
    /\ Len(loc[a].out) = 2 /\ Len(loc[b].out) = 2
    /\ peers[a] # loc[a].before /\ peers[b] # loc[b].before

\* agent a's handshake or listen is blocked in a receive
Waiting(a) == pc[a] \in {"hs_ack", "hs_reply", "ls_invite", "ls_desc"}

\* C17: every handshake and every listen call terminates, also when the peer never
\* sends anything: a call blocked in a receive leaves it, with a datagram or with the
\* failure of the receive when the installed deadline passes.
C17_CallsTerminate ==
  \A a \in Agents : Waiting(a) ~> (pc[a] \in {"idle", "aborted"})

\* a call that ended on the deadline of its first receive: nothing was ever sent to
\* the agent, neither by the other agent nor by the scripted peer
C17_Witness ==
  \E a \in Agents :
    /\ ret[a] = "panic: recv" /\ loc[a].rx = << >>
    /\ adv = 0 /\ \A b \in Agents \ {a} : loc[b].op = "none"

\* every address a datagram can come from, but agent a's own
Senders(a) == (Agents \cup AdvAddrs) \ {a}

\* C18: listen takes an invite from any sender, whatever the agent did before: while
\* a listen call waits for its invite and the socket's queue has room, an invite
\* from any sender is queued for it, also after a handshake or send of the agent
\* connected the socket to one peer (stated here for a listen that follows a call
\* that returned success).
C18_ListenTakesAnySender ==
  \A a \in Agents :
    (pc[a] = "ls_invite" /\ loc[a].prev = "Ok" /\ Len(inbox[a]) < MaxInbox) =>
      \A x \in Senders(a) : Put(inbox, a, Dgram(x, Invite, None, <<0, 0>>)) # inbox

\* C19: within one listen call the identity frame that is deserialized and
\* registered comes from the address that sent the accepted invite, so the reply
\* sent to the invite's sender describes that sender's own record (stated here for
\* the listen calls that returned success).
C19_FrameFromInviteSender ==
  \A a \in Agents :
    (GotAddressedFrame(a) /\ pc[a] = "idle" /\ ret[a] = "Ok") =>
      loc[a].rx[2].from = loc[a].rx[1].from

\* each of the two agents' directories holds the other's identity, or neither does
Agree == Contains(peers[1], Profile(2)) <=> Contains(peers[2], Profile(1))

\* C20: two agents that exchange handshake datagrams with each other only, over a
\* network that may lose datagrams: whenever neither has a handshake or listen call
\* in progress, the directory of one holds the other's identity if and only if the
\* other's directory holds the one's (stated here for the runs in which every send
\* succeeded: a lost datagram is the only fault).
C20_DirectoriesAgree ==
  (\A a \in Agents : pc[a] \in {"idle", "aborted"} /\ ret[a] # "panic: send") => Agree

\* the same for the states in which every call so far has returned
C20_DirectoriesAgreeReturned ==
  (\A a \in Agents : pc[a] = "idle") => Agree

\* agent a's handshake or listen call has ended without returning success: it
\* returned an error, or one of its steps failed and the call was abandoned
EndedWithoutSuccess(a) ==
  /\ loc[a].op \in {"handshake", "listen"}
  /\ pc[a] \in {"idle", "aborted"}
  /\ ret[a] # "Ok"

\* C21: the directory update is atomic with the outcome of the call: a handshake or
\* listen call that ends without returning success (a returned error, or a failure
\* of a send or receive step) leaves the agent's directory exactly as the call
\* found it.
C21_FailedCallKeepsDirectory ==
  \A a \in Agents : EndedWithoutSuccess(a) => peers[a] = loc[a].before

\* the part of C21 the code keeps: a call that returned an error value left the
\* directory as it found it
C21_ReturnedErrorKeepsDirectory ==
  \A a \in Agents :
    (EndedWithoutSuccess(a) /\ pc[a] = "idle") => peers[a] = loc[a].before
====
